---- MODULE Spec2Model ----
(***************************************************************************)
(* A model of the OPNet token dashboard: the Portfolio component (the      *)
(* holdings collection with its add and remove handlers), the pure         *)
(* supply-share computation, and the NetworkStats component (the polling   *)
(* cycle that publishes head height, gas parameters and recent blocks).    *)
(*                                                                         *)
(* React state is modelled by one variable per useState cell.  A handler   *)
(* that awaits is split at its awaits: the part up to the first await is   *)
(* one action, and every continuation is one action.  A continuation reads *)
(* the values its closure captured when the handler was called, and the    *)
(* functional updates it issues read the state as it is when it runs.      *)
(***************************************************************************)
EXTENDS Integers, Sequences, FiniteSets, Bags, TLC

----------------------------------------------------------------------------
(* Bounds of the model *)

\* the longest holdings collection an add is started for
MaxTokens == 2
\* the number of addToken calls that may be suspended at an await at once
MaxCalls == 2
\* the largest balance and total supply of the pure supply-share check
MaxAmount == 12
\* the largest head height the chain reaches
MaxHeight == 1
\* the largest value Date.now() returns
MaxNow == 1
\* the number of fetchData calls that may be suspended at an await at once
MaxCycles == 2
\* the number of pulse-clear timeouts that may be pending at once
MaxPulseTimers == 2
\* the largest head height of the runs of successful polls
MaxHead == 6
\* the longest collection the derived views are computed for
MaxHoldings == 9

----------------------------------------------------------------------------
(* Values *)

\* JavaScript null, for the cells that hold a string or null
NoWallet == "null"
\* the error cell: <<>> is null, otherwise the parts of the message
NoError == <<>>

\* blockHeight before the first successful fetch (null)
NoHeight == -1
\* gasData before the first successful fetch (null)
NoGas == "null"
\* what gasParameters() can return
Gases == {"g1", "g2"}
\* what getBlockNumber() can return
Heights == 0..MaxHeight
\* the number of recent blocks asked for
RecentWindow == 6
\* what getBlockNumber() can return in the runs of successful polls
Heads == 0..MaxHead

\* the texts the user can type into the address input, as character sequences
Inputs ==
    { <<>>, <<" ">>, <<"a">>, <<" ", "a", " ">>, <<"b">>, <<"A">> }

\* the identities the wallet collaborator can report
Wallets == {"w1"}

\* what name(), symbol(), decimals() and totalSupply() of a contract can return
Metas ==
    { [name |-> "Alpha", symbol |-> "ALP", decimals |-> 8, totalSupply |-> 0],
      [name |-> "Beta",  symbol |-> "BET", decimals |-> 6, totalSupply |-> 3] }

\* what balanceOf() can return (one value above every total supply)
Balances == {0, 1, 5}

\* the fetch of Promise.all that rejects
Causes == {"name", "symbol", "decimals", "totalSupply"}

\* the message of the error a rejected call carries (it may be empty)
Messages == {"", "timeout"}

\* the raw amounts handed to the formatters
FormatAmounts ==
    { 0, 5, 1000, 12345, 1000000, 1000050, 1234567, 100000000, 123450000,
      123456789 }

\* the decimal counts handed to the formatters
FormatDecimals == {0, 2, 6, 8}

----------------------------------------------------------------------------
(* State *)

VARIABLES
    \* Portfolio
    tokens,            \* useState<PortfolioToken[]>
    inputAddr,         \* useState('')
    loading,           \* useState(false)
    error,             \* useState<string | null>
    isConnected,       \* useOPNet(): the provider is present and connected
    walletAddress,     \* useWalletConnect().walletAddress
    walletAddressObj,  \* useWalletConnect().address
    calls,             \* the addToken calls suspended at an await
    lastOp,            \* history: the Portfolio handler that ran last with its input, or env
    removed,           \* history: the address removed last, <<>> before the first remove
    \* NetworkStats
    mounted,           \* the component is mounted (its state is alive)
    blockHeight,       \* useState<bigint | null>
    gasData,           \* useState<GasData | null>
    latestBlock,       \* useState<BlockData | null>, a sequence of at most one
    recentBlocks,      \* useState<BlockData[]>
    lastUpdate,        \* useState<number>(0)
    pulseBlock,        \* useState(false)
    intervals,         \* the number of armed setInterval timers
    pulseTimers,       \* the number of pending pulse-clear setTimeout callbacks
    cycles,            \* the bag of fetchData calls suspended at an await
    \* the supply-share computation on its own
    shareIn,           \* <<balance, totalSupply>>
    shareOut,          \* <<calcSupplyShare, sharePercent>> of it, <<>> before the call
    \* the amount formatters on their own
    fmtIn,             \* <<amount, decimals>>
    fmtOut,            \* <<formatter, its result as characters>>, <<>> before the call
    \* the derived views of the holdings on their own
    viewIn,            \* the collection rendered
    viewOut,           \* the views rendered from it, <<>> before the render
    \* TokenExplorer on its own
    contractAddress,   \* useState('')
    tokenData,         \* useState<TokenData | null>, a sequence of at most one
    activeAddress,     \* useState('')
    userBalance,       \* useState<bigint | null>, a sequence of at most one
    fetchError,        \* useState<string | null>
    isFetching,        \* useState(false)
    provider,          \* useOPNet().provider is not null
    exploring          \* the handleExplore call suspended at an await, at most one

ledgerVars ==
    <<tokens, inputAddr, loading, error, isConnected, walletAddress,
      walletAddressObj, calls, lastOp, removed>>

formatVars == <<fmtIn, fmtOut>>

\* the variables of the computations checked on their own
chartVars == <<viewIn, viewOut>>

explorerVars ==
    <<contractAddress, tokenData, activeAddress, userBalance, fetchError,
      isFetching, provider, exploring>>

shareVars == <<shareIn, shareOut, formatVars, chartVars, explorerVars>>

statsVars ==
    <<mounted, blockHeight, gasData, latestBlock, recentBlocks, lastUpdate,
      pulseBlock, intervals, pulseTimers, cycles>>

portfolioVars ==
    <<tokens, inputAddr, loading, error, walletAddress, walletAddressObj,
      calls, removed>>

vars == <<ledgerVars, shareVars, statsVars>>

----------------------------------------------------------------------------
(* Pure functions *)

IsSpace(c) == c = " "

RECURSIVE TrimStart(_)
TrimStart(s) ==
    IF s # <<>> /\ IsSpace(Head(s)) THEN TrimStart(Tail(s)) ELSE s

RECURSIVE TrimEnd(_)
TrimEnd(s) ==
    IF s # <<>> /\ IsSpace(s[Len(s)]) THEN TrimEnd(SubSeq(s, 1, Len(s) - 1)) ELSE s

Trim_none(s) == s

\* String.prototype.trim
Trim(s) == TrimEnd(TrimStart(s))

calcSupplyShare_rounded(balance, totalSupply) ==
    IF totalSupply = 0 THEN 0
    ELSE (balance * 10000 + totalSupply \div 2) \div totalSupply

\* the supply share in hundredths of a percent: the code returns this integer
\* divided by 100 as a floating-point number
calcSupplyShare(balance, totalSupply) ==
    IF totalSupply = 0 THEN 0 ELSE (balance * 10000) \div totalSupply

sharePercent_rounded(balance, totalSupply) ==
    IF totalSupply > 0
    THEN (balance * 10000 + totalSupply \div 2) \div totalSupply
    ELSE 0

\* SupplyVisualization's share, in hundredths of a percent
sharePercent(balance, totalSupply) ==
    IF totalSupply > 0 THEN (balance * 10000) \div totalSupply ELSE 0

hasToken_never(ts, addr) == FALSE

\* a membership test that still counts the address removed last
hasToken_sticky(ts, addr) ==
    (\E i \in 1..Len(ts) : ts[i].address = addr) \/ addr = removed

HasAddress(ts, addr) == \E i \in 1..Len(ts) : ts[i].address = addr

\* tokens.some((t) => t.address === addr)
hasToken(ts, addr) == \E i \in 1..Len(ts) : ts[i].address = addr

filterOut_head(prev, address) ==
    IF \E i \in 1..Len(prev) : prev[i].address = address THEN Tail(prev) ELSE prev

\* prev.filter((t) => t.address !== address)
RECURSIVE filterOut(_, _)
filterOut(prev, address) ==
    IF prev = <<>> THEN <<>>
    ELSE IF Head(prev).address # address
         THEN <<Head(prev)>> \o filterOut(Tail(prev), address)
         ELSE filterOut(Tail(prev), address)

\* the PortfolioToken built from the fetched values
makeToken(addr, meta, balance) ==
    [address     |-> addr,
     name        |-> meta.name,
     symbol      |-> meta.symbol,
     decimals    |-> meta.decimals,
     totalSupply |-> meta.totalSupply,
     balance     |-> balance,
     supplyShare |-> calcSupplyShare(balance, meta.totalSupply)]

errDuplicate == <<"Token already added">>

errFailed_silent(msg) == NoError

errFailed(msg) == <<"Failed to load token: ", msg>>

RemoveAt(s, i) == SubSeq(s, 1, i - 1) \o SubSeq(s, i + 1, Len(s))

Addresses(ts) == { ts[i].address : i \in 1..Len(ts) }

walletConnected == walletAddress # NoWallet

\* disabled={loading} of the input, disabled={loading || !isConnected} of the button
inputDisabled_never == FALSE

inputDisabled == loading

submitDisabled == inputDisabled \/ ~isConnected

\* Portfolio as mounted
InitPortfolio ==
    /\ tokens = <<>>
    /\ inputAddr = <<>>
    /\ loading = FALSE
    /\ error = NoError
    /\ isConnected \in BOOLEAN
    /\ walletAddress = NoWallet
    /\ walletAddressObj = NoWallet
    /\ calls = <<>>
    /\ lastOp = <<"env">>
    /\ removed = <<>>

\* the state cells of TokenExplorer as useState creates them
InitExplorerCells ==
    /\ contractAddress = <<>>
    /\ tokenData = <<>>
    /\ activeAddress = <<>>
    /\ userBalance = <<>>
    /\ fetchError = NoError
    /\ isFetching = FALSE
    /\ exploring = <<>>

\* TokenExplorer is not used
InitExplorerIdle == InitExplorerCells /\ provider = TRUE

\* no supply share asked for
InitShareIdle ==
    /\ InitExplorerIdle
    /\ shareIn = <<0, 0>>
    /\ shareOut = <<>>
    /\ fmtIn = <<0, 0>>
    /\ fmtOut = <<>>
    /\ viewIn = <<>>
    /\ viewOut = <<>>

\* the state cells of NetworkStats as useState creates them
InitStatsCells ==
    /\ blockHeight = NoHeight
    /\ gasData = NoGas
    /\ latestBlock = <<>>
    /\ recentBlocks = <<>>
    /\ lastUpdate = 0
    /\ pulseBlock = FALSE
    /\ pulseTimers = 0

\* NetworkStats is not rendered
InitStatsIdle ==
    /\ InitStatsCells
    /\ mounted = FALSE
    /\ intervals = 0
    /\ cycles = EmptyBag

InitLedger == InitPortfolio /\ InitShareIdle /\ InitStatsIdle

----------------------------------------------------------------------------
(* NetworkStats: the polling cycle *)

heightChanged_greater(prev, height) == prev # NoHeight /\ height > prev

\* const heightChanged = blockHeight !== null && height !== blockHeight,
\* with the blockHeight the callback captured
heightChanged(prev, height) == prev # NoHeight /\ height # prev

\* the BlockData built from a fetched block (its other fields are copied as they are)
blockData(height) == [height |-> height]

RECURSIVE blockNumbersFrom_negative(_, _)
blockNumbersFrom_negative(height, i) ==
    IF i >= RecentWindow THEN <<>>
    ELSE <<height - i>> \o blockNumbersFrom_negative(height, i + 1)

\* the loop that collects height, height - 1, ... while they are not negative
RECURSIVE blockNumbersFrom(_, _)
blockNumbersFrom(height, i) ==
    IF i >= RecentWindow THEN <<>>
    ELSE (IF height - i >= 0 THEN <<height - i>> ELSE <<>>)
         \o blockNumbersFrom(height, i + 1)

blockNumbers(height) == blockNumbersFrom(height, 0)

\* a fetchData call suspended at an await: prev is the blockHeight its
\* callback captured, height the head height it fetched
Cycle(pc, prev, height) == [pc |-> pc, prev |-> prev, height |-> height]

\* fetchData up to its first await, called by a callback that captured
\* connected and prev
startCycle(cs, connected, prev) ==
    IF connected
    THEN cs (+) SetToBag({Cycle("head", prev, NoHeight)})
    ELSE cs

\* the cycle c replaced by what it becomes
advance(cs, c, next) == (cs (-) SetToBag({c})) (+) next

clearInterval_skip(n) == n

\* the effect's cleanup: if (intervalRef.current) clearInterval(intervalRef.current),
\* on the count n of armed intervals; the ref holds the interval armed last
clearInterval(n) == IF n > 0 THEN n - 1 ELSE n

\* intervalRef.current = setInterval(..., 10000), on the count n of armed intervals
setInterval(n) == n + 1

\* a new fetchData makes React clean the effect up and run it again
rerunEffect(n) == setInterval(clearInterval(n))

\* the interval timer fires and calls the fetchData of the current effect
intervalFire ==
    /\ intervals > 0
    /\ isConnected => BagCardinality(cycles) < MaxCycles
    /\ cycles' = startCycle(cycles, isConnected, blockHeight)
    /\ UNCHANGED <<mounted, blockHeight, gasData, latestBlock, recentBlocks,
                   lastUpdate, pulseBlock, intervals, pulseTimers, isConnected,
                   lastOp, portfolioVars, shareVars>>

headResolved_norestart(c, height, gas, now) ==
    /\ c \in BagToSet(cycles)
    /\ c.pc = "head"
    /\ now >= lastUpdate
    /\ LET changed == heightChanged(c.prev, height)
           next    == advance(cycles, c, SetToBag({Cycle("block", c.prev, height)}))
       IN /\ changed => pulseTimers < MaxPulseTimers
          /\ IF mounted
             THEN /\ blockHeight' = height
                  /\ gasData' = gas
                  /\ lastUpdate' = now
                  /\ pulseBlock' = (changed \/ pulseBlock)
             ELSE UNCHANGED <<blockHeight, gasData, lastUpdate, pulseBlock>>
          /\ pulseTimers' = IF changed THEN pulseTimers + 1 ELSE pulseTimers
          /\ cycles' = next
          /\ intervals' = intervals
    /\ UNCHANGED <<mounted, latestBlock, recentBlocks, isConnected,
                   lastOp, portfolioVars, shareVars>>

\* Promise.all([getBlockNumber(), gasParameters()]) resolves; now is Date.now().
\* A changed blockHeight gives a new fetchData, so the effect is cleaned up
\* and run again: the interval is re-armed and fetchData is called at once.
\* The setters of an unmounted component do nothing.
headResolved(c, height, gas, now) ==
    /\ c \in BagToSet(cycles)
    /\ c.pc = "head"
    /\ now >= lastUpdate
    /\ LET changed == heightChanged(c.prev, height)
           rerun   == mounted /\ height # blockHeight
           next    == advance(cycles, c, SetToBag({Cycle("block", c.prev, height)}))
       IN /\ changed => pulseTimers < MaxPulseTimers
          /\ (rerun /\ isConnected) => BagCardinality(cycles) < MaxCycles
          /\ IF mounted
             THEN /\ blockHeight' = height
                  /\ gasData' = gas
                  /\ lastUpdate' = now
                  /\ pulseBlock' = (changed \/ pulseBlock)
             ELSE UNCHANGED <<blockHeight, gasData, lastUpdate, pulseBlock>>
          /\ pulseTimers' = IF changed THEN pulseTimers + 1 ELSE pulseTimers
          /\ cycles' = IF rerun THEN startCycle(next, isConnected, height) ELSE next
          /\ intervals' = IF rerun THEN rerunEffect(intervals) ELSE intervals
    /\ UNCHANGED <<mounted, latestBlock, recentBlocks, isConnected,
                   lastOp, portfolioVars, shareVars>>

cycleRejected_cancel(c) ==
    /\ c \in BagToSet(cycles)
    /\ cycles' = advance(cycles, c, EmptyBag)
    /\ intervals' = clearInterval(intervals)
    /\ UNCHANGED <<mounted, blockHeight, gasData, latestBlock, recentBlocks,
                   lastUpdate, pulseBlock, pulseTimers, isConnected,
                   lastOp, portfolioVars, shareVars>>

\* an await of the cycle rejects: the catch block swallows the error
cycleRejected(c) ==
    /\ c \in BagToSet(cycles)
    /\ cycles' = advance(cycles, c, EmptyBag)
    /\ UNCHANGED <<mounted, blockHeight, gasData, latestBlock, recentBlocks,
                   lastUpdate, pulseBlock, intervals, pulseTimers, isConnected,
                   lastOp, portfolioVars, shareVars>>

blockResolved_unguarded(c) ==
    /\ c \in BagToSet(cycles)
    /\ c.pc = "block"
    /\ latestBlock' = <<blockData(c.height)>>
    /\ cycles' = advance(cycles, c, SetToBag({Cycle("blocks", c.prev, c.height)}))
    /\ UNCHANGED <<mounted, blockHeight, gasData, recentBlocks, lastUpdate,
                   pulseBlock, intervals, pulseTimers, isConnected,
                   lastOp, portfolioVars, shareVars>>

\* getBlock(height) resolves
blockResolved(c) ==
    /\ c \in BagToSet(cycles)
    /\ c.pc = "block"
    /\ latestBlock' = IF mounted THEN <<blockData(c.height)>> ELSE latestBlock
    /\ cycles' = advance(cycles, c,
                     IF Len(blockNumbers(c.height)) > 0
                     THEN SetToBag({Cycle("blocks", c.prev, c.height)})
                     ELSE EmptyBag)
    /\ UNCHANGED <<mounted, blockHeight, gasData, recentBlocks, lastUpdate,
                   pulseBlock, intervals, pulseTimers, isConnected,
                   lastOp, portfolioVars, shareVars>>

\* getBlocks(blockNumbers) resolves
blocksResolved(c) ==
    /\ c \in BagToSet(cycles)
    /\ c.pc = "blocks"
    /\ LET nums == blockNumbers(c.height) IN
       recentBlocks' = IF mounted
                       THEN [k \in 1..Len(nums) |-> blockData(nums[k])]
                       ELSE recentBlocks
    /\ cycles' = advance(cycles, c, EmptyBag)
    /\ UNCHANGED <<mounted, blockHeight, gasData, latestBlock, lastUpdate,
                   pulseBlock, intervals, pulseTimers, isConnected,
                   lastOp, portfolioVars, shareVars>>

\* setTimeout(() => setPulseBlock(false), 1000) fires
pulseClear ==
    /\ pulseTimers > 0
    /\ pulseBlock' = IF mounted THEN FALSE ELSE pulseBlock
    /\ pulseTimers' = pulseTimers - 1
    /\ UNCHANGED <<mounted, blockHeight, gasData, latestBlock, recentBlocks,
                   lastUpdate, intervals, cycles, isConnected, lastOp,
                   portfolioVars, shareVars>>

\* the component unmounts: the effect's cleanup clears the interval
unmount ==
    /\ mounted
    /\ mounted' = FALSE
    /\ intervals' = clearInterval(intervals)
    /\ UNCHANGED <<blockHeight, gasData, latestBlock, recentBlocks, lastUpdate,
                   pulseBlock, pulseTimers, cycles, isConnected, lastOp,
                   portfolioVars, shareVars>>

\* the RPC provider connects or disconnects; a mounted NetworkStats gets a
\* new fetchData, so its effect is cleaned up and run again
providerChange ==
    /\ isConnected' = ~isConnected
    /\ (mounted /\ ~isConnected) => BagCardinality(cycles) < MaxCycles
    /\ cycles' = IF mounted THEN startCycle(cycles, ~isConnected, blockHeight) ELSE cycles
    /\ intervals' = IF mounted THEN rerunEffect(intervals) ELSE intervals
    /\ lastOp' = <<"env">>
    /\ UNCHANGED <<mounted, blockHeight, gasData, latestBlock, recentBlocks,
                   lastUpdate, pulseBlock, pulseTimers, portfolioVars,
                   shareVars>>

NextStats ==
    \/ intervalFire
    \/ \E c \in BagToSet(cycles), height \in Heights, gas \in Gases, now \in 1..MaxNow :
           headResolved(c, height, gas, now)
    \/ \E c \in BagToSet(cycles) : cycleRejected(c)
    \/ \E c \in BagToSet(cycles) : blockResolved(c)
    \/ \E c \in BagToSet(cycles) : blocksResolved(c)
    \/ pulseClear
    \/ unmount
    \/ providerChange

\* NetworkStats after its first render: the effect has called fetchData and
\* armed the interval
InitStats ==
    /\ InitPortfolio
    /\ InitShareIdle
    /\ InitStatsCells
    /\ mounted = TRUE
    /\ intervals = setInterval(0)
    /\ cycles = startCycle(EmptyBag, isConnected, NoHeight)

SpecStats == InitStats /\ [][NextStats]_vars

\* runs in which the provider stays connected, the component stays mounted
\* and every fetch succeeds
NextPolls ==
    \/ intervalFire
    \/ \E c \in BagToSet(cycles), height \in Heads :
           headResolved(c, height, "g1", 1)
    \/ \E c \in BagToSet(cycles) : blockResolved(c)
    \/ \E c \in BagToSet(cycles) : blocksResolved(c)
    \/ pulseClear

InitPolls == InitStats /\ isConnected

SpecPolls == InitPolls /\ [][NextPolls]_vars

\* an await of some suspended fetchData call settles
settle ==
    \/ \E c \in BagToSet(cycles), height \in Heads :
           headResolved(c, height, "g1", 1)
    \/ \E c \in BagToSet(cycles) : blockResolved(c)
    \/ \E c \in BagToSet(cycles) : blocksResolved(c)
    \/ \E c \in BagToSet(cycles) : cycleRejected(c)

\* runs in which the provider stays connected and the component stays
\* mounted, while fetches may fail
NextRecover ==
    \/ intervalFire
    \/ settle
    \/ pulseClear

\* the event loop runs every timer that is due, and every request to the
\* provider settles
SpecRecover ==
    /\ InitPolls
    /\ [][NextRecover]_vars
    /\ WF_vars(intervalFire)
    /\ WF_vars(pulseClear)
    /\ WF_vars(settle)

----------------------------------------------------------------------------
(* Portfolio: the handlers *)

\* onChange={(e) => setInputAddr(e.target.value)}
setInputAddr(value) ==
    /\ walletConnected
    /\ ~inputDisabled
    /\ inputAddr' = value
    /\ lastOp' = <<"env">>
    /\ UNCHANGED <<tokens, loading, error, isConnected, walletAddress,
                   walletAddressObj, calls, removed, shareVars, statsVars>>

\* addToken up to its first await.  contractOk: getContract returns;
\* otherwise it throws and the catch and finally blocks run at once.
addToken(contractOk, msg) ==
    LET addr == Trim(inputAddr) IN
    /\ walletConnected
    /\ ~submitDisabled
    /\ IF addr = <<>> \/ ~isConnected
       THEN /\ lastOp' = <<"addToken:ignored">>
            /\ UNCHANGED <<tokens, inputAddr, loading, error, calls>>
       ELSE IF hasToken(tokens, addr)
       THEN /\ error' = errDuplicate
            /\ lastOp' = <<"addToken:duplicate">>
            /\ UNCHANGED <<tokens, inputAddr, loading, calls>>
       ELSE IF ~contractOk
       THEN /\ error' = errFailed(msg)
            /\ loading' = FALSE
            /\ lastOp' = <<"addToken:failed">>
            /\ UNCHANGED <<tokens, inputAddr, calls>>
       ELSE /\ Len(tokens) < MaxTokens
            /\ Len(calls) < MaxCalls
            /\ loading' = TRUE
            /\ error' = NoError
            /\ calls' = Append(calls,
                   [addr     |-> addr,
                    identity |-> IF walletConnected THEN walletAddressObj ELSE NoWallet,
                    pc       |-> "metadata",
                    meta     |-> <<>>])
            /\ lastOp' = <<"addToken:fetching">>
            /\ UNCHANGED <<tokens, inputAddr>>
    /\ UNCHANGED <<isConnected, walletAddress, walletAddressObj, removed, shareVars, statsVars>>

finishAdd_prepend(i, balance) ==
    /\ tokens' = <<makeToken(calls[i].addr, calls[i].meta, balance)>> \o tokens
    /\ inputAddr' = <<>>
    /\ loading' = FALSE
    /\ calls' = RemoveAt(calls, i)
    /\ UNCHANGED <<error, removed>>

\* the end of the try block and the finally block
finishAdd(i, balance) ==
    /\ tokens' = Append(tokens, makeToken(calls[i].addr, calls[i].meta, balance))
    /\ inputAddr' = <<>>
    /\ loading' = FALSE
    /\ calls' = RemoveAt(calls, i)
    /\ UNCHANGED <<error, removed>>

metadataResolved_always(i, meta) ==
    /\ i \in 1..Len(calls)
    /\ calls[i].pc = "metadata"
    /\ calls' = [calls EXCEPT ![i].pc = "balance", ![i].meta = meta]
    /\ lastOp' = <<"balanceOf">>
    /\ UNCHANGED <<tokens, inputAddr, loading, error, removed>>
    /\ UNCHANGED <<isConnected, walletAddress, walletAddressObj, shareVars, statsVars>>

metadataResolved_early(i, meta) ==
    /\ i \in 1..Len(calls)
    /\ calls[i].pc = "metadata"
    /\ tokens' = Append(tokens, makeToken(calls[i].addr, meta, 0))
    /\ IF calls[i].identity = NoWallet
       THEN /\ inputAddr' = <<>>
            /\ loading' = FALSE
            /\ calls' = RemoveAt(calls, i)
            /\ lastOp' = <<"added:noIdentity", meta>>
            /\ UNCHANGED <<error, removed>>
       ELSE /\ calls' = [calls EXCEPT ![i].pc = "balance", ![i].meta = meta]
            /\ lastOp' = <<"balanceOf">>
            /\ UNCHANGED <<inputAddr, loading, error, removed>>
    /\ UNCHANGED <<isConnected, walletAddress, walletAddressObj, shareVars, statsVars>>

\* Promise.all resolves: without an identity the token is appended at once,
\* with one balanceOf is called and awaited
metadataResolved(i, meta) ==
    /\ i \in 1..Len(calls)
    /\ calls[i].pc = "metadata"
    /\ IF calls[i].identity = NoWallet
       THEN /\ tokens' = Append(tokens, makeToken(calls[i].addr, meta, 0))
            /\ inputAddr' = <<>>
            /\ loading' = FALSE
            /\ calls' = RemoveAt(calls, i)
            /\ lastOp' = <<"added:noIdentity", meta>>
            /\ UNCHANGED <<error, removed>>
       ELSE /\ calls' = [calls EXCEPT ![i].pc = "balance", ![i].meta = meta]
            /\ lastOp' = <<"balanceOf">>
            /\ UNCHANGED <<tokens, inputAddr, loading, error, removed>>
    /\ UNCHANGED <<isConnected, walletAddress, walletAddressObj, shareVars, statsVars>>

\* Promise.all rejects: the outer catch and the finally block
metadataRejected(i, cause, msg) ==
    /\ i \in 1..Len(calls)
    /\ calls[i].pc = "metadata"
    /\ error' = errFailed(msg)
    /\ loading' = FALSE
    /\ calls' = RemoveAt(calls, i)
    /\ lastOp' = <<"metadataRejected", cause>>
    /\ UNCHANGED <<tokens, inputAddr, isConnected, walletAddress,
                   walletAddressObj, removed, shareVars, statsVars>>

balanceResolved(i, balance) ==
    /\ i \in 1..Len(calls)
    /\ calls[i].pc = "balance"
    /\ finishAdd(i, balance)
    /\ lastOp' = <<"added:balance", balance>>
    /\ UNCHANGED <<isConnected, walletAddress, walletAddressObj, shareVars, statsVars>>

balanceRejected_abort(i) ==
    /\ i \in 1..Len(calls)
    /\ calls[i].pc = "balance"
    /\ error' = errFailed("timeout")
    /\ loading' = FALSE
    /\ calls' = RemoveAt(calls, i)
    /\ lastOp' = <<"added:balanceFailed">>
    /\ UNCHANGED <<tokens, inputAddr, isConnected, walletAddress,
                   walletAddressObj, removed, shareVars, statsVars>>

\* the inner catch: balance stays 0n
balanceRejected(i) ==
    /\ i \in 1..Len(calls)
    /\ calls[i].pc = "balance"
    /\ finishAdd(i, 0)
    /\ lastOp' = <<"added:balanceFailed">>
    /\ UNCHANGED <<isConnected, walletAddress, walletAddressObj, shareVars, statsVars>>

removeToken_blocked(address) ==
    /\ walletConnected
    /\ tokens' = IF loading THEN tokens ELSE filterOut(tokens, address)
    /\ removed' = IF ~loading /\ HasAddress(tokens, address) THEN address ELSE removed
    /\ lastOp' = <<"removeToken", address>>
    /\ UNCHANGED <<inputAddr, loading, error, isConnected, walletAddress,
                   walletAddressObj, calls, shareVars, statsVars>>

\* onClick={() => removeToken(token.address)}
removeToken(address) ==
    /\ walletConnected
    /\ tokens' = filterOut(tokens, address)
    /\ removed' = IF HasAddress(tokens, address) THEN address ELSE removed
    /\ lastOp' = <<"removeToken", address>>
    /\ UNCHANGED <<inputAddr, loading, error, isConnected, walletAddress,
                   walletAddressObj, calls, shareVars, statsVars>>

walletChange_reset(w, obj) ==
    /\ <<w, obj>> # <<walletAddress, walletAddressObj>>
    /\ walletAddress' = w
    /\ walletAddressObj' = obj
    /\ tokens' = <<>>
    /\ lastOp' = <<"env">>
    /\ UNCHANGED <<inputAddr, loading, error, isConnected, calls, removed, shareVars, statsVars>>

\* the wallet collaborator connects, disconnects or reports its address object
walletChange(w, obj) ==
    /\ <<w, obj>> # <<walletAddress, walletAddressObj>>
    /\ walletAddress' = w
    /\ walletAddressObj' = obj
    /\ lastOp' = <<"env">>
    /\ UNCHANGED <<tokens, inputAddr, loading, error, isConnected, calls, removed, shareVars, statsVars>>

\* the addresses a remove can be asked for
RemoveAddresses == { Trim(s) : s \in Inputs } \ {<<>>}

NextLedger ==
    \/ \E value \in Inputs : setInputAddr(value)
    \/ \E contractOk \in BOOLEAN, msg \in Messages : addToken(contractOk, msg)
    \/ \E i \in 1..MaxCalls, meta \in Metas : metadataResolved(i, meta)
    \/ \E i \in 1..MaxCalls, cause \in Causes, msg \in Messages :
           metadataRejected(i, cause, msg)
    \/ \E i \in 1..MaxCalls, balance \in Balances : balanceResolved(i, balance)
    \/ \E i \in 1..MaxCalls : balanceRejected(i)
    \/ \E address \in RemoveAddresses : removeToken(address)
    \/ \E w \in Wallets : \E obj \in {NoWallet, w} : walletChange(w, obj)
    \/ walletChange(NoWallet, NoWallet)
    \/ providerChange

SpecLedger == InitLedger /\ [][NextLedger]_vars

----------------------------------------------------------------------------
(* The supply-share computation on its own *)

computeShare ==
    /\ shareOut = <<>>
    /\ shareOut' = <<calcSupplyShare(shareIn[1], shareIn[2]),
                     sharePercent(shareIn[1], shareIn[2])>>
    /\ UNCHANGED <<shareIn, formatVars, chartVars, explorerVars,
                   ledgerVars, statsVars>>

NextShare == computeShare

InitShare ==
    /\ InitPortfolio
    /\ InitStatsIdle
    /\ InitExplorerIdle
    /\ shareIn \in (0..MaxAmount) \X (0..MaxAmount)
    /\ shareOut = <<>>
    /\ fmtIn = <<0, 0>>
    /\ fmtOut = <<>>
    /\ viewIn = <<>>
    /\ viewOut = <<>>

SpecShare == InitShare /\ [][NextShare]_vars

----------------------------------------------------------------------------
(* The amount formatters on their own *)

RECURSIVE Pow10(_)
\* 10n ** BigInt(decimals)
Pow10(n) == IF n = 0 THEN 1 ELSE 10 * Pow10(n - 1)

\* the decimal digit d as a character
DigitChar(d) == <<"0", "1", "2", "3", "4", "5", "6", "7", "8", "9">>[d + 1]

RECURSIVE toString(_)
\* bigint.toString(): the decimal digits, without leading zeros
toString(n) ==
    IF n < 10 THEN <<DigitChar(n)>>
    ELSE toString(n \div 10) \o <<DigitChar(n % 10)>>

RECURSIVE padStart(_, _, _)
\* String.prototype.padStart(targetLength, padString) for a one-character pad
padStart(str, targetLength, pad) ==
    IF Len(str) >= targetLength THEN str
    ELSE padStart(<<pad>> \o str, targetLength, pad)

stripTrailingZeros_keep(str) == str

RECURSIVE stripTrailingZeros(_)
\* str.replace(/0+$/, '')
stripTrailingZeros(str) ==
    IF str # <<>> /\ str[Len(str)] = "0"
    THEN stripTrailingZeros(SubSeq(str, 1, Len(str) - 1))
    ELSE str

\* str.slice(0, end) for end >= 0
sliceTo(str, end) == SubSeq(str, 1, IF end < Len(str) THEN end ELSE Len(str))

RECURSIVE groupDigits(_)
\* the digits with a comma before every group of three, counted from the right
groupDigits(digits) ==
    IF Len(digits) <= 3 THEN digits
    ELSE groupDigits(SubSeq(digits, 1, Len(digits) - 3))
         \o <<",">> \o SubSeq(digits, Len(digits) - 2, Len(digits))

\* bigint.toLocaleString() in the en-US locale
toLocaleString(n) == groupDigits(toString(n))

\* the strings both return statements build
joinAmount(whole, trimmed) ==
    IF Len(trimmed) = 0
    THEN toLocaleString(whole)
    ELSE toLocaleString(whole) \o <<".">> \o trimmed

\* formatTokenAmount of the holdings view
formatTokenAmount(amount, decimals) ==
    LET divisor      == Pow10(decimals)
        whole        == amount \div divisor
        remainder    == amount % divisor
        remainderStr == padStart(toString(remainder), decimals, "0")
        trimmed      == sliceTo(stripTrailingZeros(remainderStr), 4)
    IN joinAmount(whole, trimmed)

\* formatTokenAmount of the explorer with the supply visualization
formatTokenAmountExplorer(amount, decimals) ==
    LET divisor      == Pow10(decimals)
        whole        == amount \div divisor
        remainder    == amount % divisor
        remainderStr == padStart(toString(remainder), decimals, "0")
        trimmed      == sliceTo(stripTrailingZeros(remainderStr), 6)
    IN joinAmount(whole, trimmed)

\* formatTokenAmount of the first explorer
formatTokenAmountBasic(amount, decimals) ==
    LET divisor      == Pow10(decimals)
        whole        == amount \div divisor
        remainder    == amount % divisor
        remainderStr == padStart(toString(remainder), decimals, "0")
        trimmed      == stripTrailingZeros(remainderStr)
    IN joinAmount(whole, trimmed)

\* the holdings view renders an amount
formatHoldings ==
    /\ fmtOut = <<>>
    /\ fmtOut' = <<"holdings", formatTokenAmount(fmtIn[1], fmtIn[2])>>
    /\ UNCHANGED <<fmtIn, shareIn, shareOut, chartVars, explorerVars,
                   ledgerVars, statsVars>>

\* the explorer with the supply visualization renders an amount
formatExplorer ==
    /\ fmtOut = <<>>
    /\ fmtOut' = <<"explorer", formatTokenAmountExplorer(fmtIn[1], fmtIn[2])>>
    /\ UNCHANGED <<fmtIn, shareIn, shareOut, chartVars, explorerVars,
                   ledgerVars, statsVars>>

\* the first explorer renders an amount
formatBasic ==
    /\ fmtOut = <<>>
    /\ fmtOut' = <<"basic", formatTokenAmountBasic(fmtIn[1], fmtIn[2])>>
    /\ UNCHANGED <<fmtIn, shareIn, shareOut, chartVars, explorerVars,
                   ledgerVars, statsVars>>

NextFormat == formatHoldings \/ formatExplorer \/ formatBasic

InitFormat ==
    /\ InitPortfolio
    /\ InitStatsIdle
    /\ InitExplorerIdle
    /\ shareIn = <<0, 0>>
    /\ shareOut = <<>>
    /\ fmtIn \in FormatAmounts \X FormatDecimals
    /\ fmtOut = <<>>
    /\ viewIn = <<>>
    /\ viewOut = <<>>

SpecFormat == InitFormat /\ [][NextFormat]_vars

----------------------------------------------------------------------------
(* The derived views of the holdings on their own *)

CHART_COLORS ==
    << "#f7931a", "#00d68f", "#4d9fff", "#9b59ff",
       "#ff4d6a", "#ffcc00", "#00cccc", "#ff8c42" >>

\* the holdings the views are rendered for: one without and one with a balance
ChartHoldings ==
    { makeToken(<<"a">>, [name |-> "Alpha", symbol |-> "ALP", decimals |-> 8,
                          totalSupply |-> 0], 0),
      makeToken(<<"b">>, [name |-> "Beta", symbol |-> "BET", decimals |-> 6,
                          totalSupply |-> 3], 5) }

chartColor_unwrapped(i) ==
    IF i < Len(CHART_COLORS) THEN CHART_COLORS[i + 1] ELSE "#888"

\* CHART_COLORS[i % CHART_COLORS.length] for the index i, counted from 0
chartColor(i) == CHART_COLORS[(i % Len(CHART_COLORS)) + 1]

\* 100 / tokens.length, kept as the fraction it is
segmentPercentage_fixed(count) == [num |-> 100, den |-> Len(CHART_COLORS)]

segmentPercentage(count) ==
    IF count > 0 THEN [num |-> 100, den |-> count] ELSE [num |-> 0, den |-> 1]

\* const donutSegments = tokens.map((t, i) => ({ color, percentage, label }))
donutSegments(holdings) ==
    [k \in 1..Len(holdings) |->
        [color      |-> chartColor(k - 1),
         percentage |-> segmentPercentage(Len(holdings)),
         label      |-> holdings[k].symbol]]

\* the legend items: tokens.map((t, i) => ...) with the legend-color and symbol
legendItems(holdings) ==
    [k \in 1..Len(holdings) |->
        [color |-> chartColor(k - 1), symbol |-> holdings[k].symbol]]

\* the cards: tokens.map((token, i) => ...) with the badge and the gauge
portfolioCards(holdings) ==
    [k \in 1..Len(holdings) |->
        [badge  |-> chartColor(k - 1),
         gauge  |-> chartColor(k - 1),
         symbol |-> holdings[k].symbol]]

\* Portfolio renders: the overview is there only for a non-empty collection
renderViews ==
    /\ viewOut = <<>>
    /\ viewOut' = << [segments |-> donutSegments(viewIn),
                      overview |-> Len(viewIn) > 0,
                      legend   |-> IF Len(viewIn) > 0 THEN legendItems(viewIn) ELSE <<>>,
                      cards    |-> IF Len(viewIn) > 0 THEN portfolioCards(viewIn) ELSE <<>>] >>
    /\ UNCHANGED <<viewIn, shareIn, shareOut, formatVars, explorerVars,
                   ledgerVars, statsVars>>

NextChart == renderViews

InitChart ==
    /\ InitPortfolio
    /\ InitStatsIdle
    /\ InitExplorerIdle
    /\ shareIn = <<0, 0>>
    /\ shareOut = <<>>
    /\ fmtIn = <<0, 0>>
    /\ fmtOut = <<>>
    /\ viewIn \in UNION { [1..n -> ChartHoldings] : n \in 0..MaxHoldings }
    /\ viewOut = <<>>

SpecChart == InitChart /\ [][NextChart]_vars

----------------------------------------------------------------------------
(* TokenExplorer: the explore request *)

errNotConnected ==
    <<"Not connected to OPNet RPC. Please wait or try a different network.">>

errFetch(msg) == <<"Failed to fetch token: ", msg>>

\* disabled={isFetching || !rpcConnected} of the Explore button
exploreDisabled == isFetching \/ ~isConnected

\* onChange of the address input, which is never disabled
setContractAddress(value) ==
    /\ contractAddress' = value
    /\ UNCHANGED <<tokenData, activeAddress, userBalance, fetchError, isFetching,
                   provider, exploring>>
    /\ UNCHANGED <<ledgerVars, statsVars, shareIn, shareOut, formatVars, chartVars>>

\* handleExplore up to its first await.  contractOk: getContract returns;
\* otherwise it throws and the catch and finally blocks run at once.
handleExplore(contractOk, msg) ==
    LET addr == Trim(contractAddress) IN
    /\ ~exploreDisabled
    /\ IF addr = <<>>
       THEN UNCHANGED <<tokenData, activeAddress, userBalance, fetchError,
                        isFetching, exploring>>
       ELSE IF ~provider \/ ~isConnected
       THEN /\ fetchError' = errNotConnected
            /\ UNCHANGED <<tokenData, activeAddress, userBalance, isFetching,
                           exploring>>
       ELSE /\ tokenData' = <<>>
            /\ userBalance' = <<>>
            /\ activeAddress' = addr
            /\ IF contractOk
               THEN /\ fetchError' = NoError
                    /\ isFetching' = TRUE
                    /\ exploring' =
                           <<[pc       |-> "metadata",
                              identity |-> IF walletConnected
                                           THEN walletAddressObj
                                           ELSE NoWallet]>>
               ELSE /\ fetchError' = errFetch(msg)
                    /\ isFetching' = FALSE
                    /\ exploring' = <<>>
    /\ UNCHANGED <<contractAddress, provider>>
    /\ UNCHANGED <<ledgerVars, statsVars, shareIn, shareOut, formatVars, chartVars>>

\* Promise.all([name(), symbol(), decimals(), totalSupply()]) resolves; the
\* balance is asked for when the callback captured a wallet with an address
exploreMetadataResolved(meta) ==
    /\ exploring # <<>>
    /\ exploring[1].pc = "metadata"
    /\ tokenData' = <<meta>>
    /\ IF exploring[1].identity # NoWallet
       THEN /\ exploring' = <<[exploring[1] EXCEPT !.pc = "balance"]>>
            /\ UNCHANGED isFetching
       ELSE /\ exploring' = <<>>
            /\ isFetching' = FALSE
    /\ UNCHANGED <<contractAddress, activeAddress, userBalance, fetchError, provider>>
    /\ UNCHANGED <<ledgerVars, statsVars, shareIn, shareOut, formatVars, chartVars>>

\* one of the four metadata calls rejects: the outer catch, then finally
exploreMetadataRejected(msg) ==
    /\ exploring # <<>>
    /\ exploring[1].pc = "metadata"
    /\ fetchError' = errFetch(msg)
    /\ isFetching' = FALSE
    /\ exploring' = <<>>
    /\ UNCHANGED <<contractAddress, tokenData, activeAddress, userBalance, provider>>
    /\ UNCHANGED <<ledgerVars, statsVars, shareIn, shareOut, formatVars, chartVars>>

\* balanceOf(walletAddressObj) resolves
exploreBalanceResolved(balance) ==
    /\ exploring # <<>>
    /\ exploring[1].pc = "balance"
    /\ userBalance' = <<balance>>
    /\ isFetching' = FALSE
    /\ exploring' = <<>>
    /\ UNCHANGED <<contractAddress, tokenData, activeAddress, fetchError, provider>>
    /\ UNCHANGED <<ledgerVars, statsVars, shareIn, shareOut, formatVars, chartVars>>

\* balanceOf rejects: the inner catch sets the balance to null
exploreBalanceRejected ==
    /\ exploring # <<>>
    /\ exploring[1].pc = "balance"
    /\ userBalance' = <<>>
    /\ isFetching' = FALSE
    /\ exploring' = <<>>
    /\ UNCHANGED <<contractAddress, tokenData, activeAddress, fetchError, provider>>
    /\ UNCHANGED <<ledgerVars, statsVars, shareIn, shareOut, formatVars, chartVars>>

\* the provider context hands out a provider object or null
providerSet(p) ==
    /\ p # provider
    /\ provider' = p
    /\ UNCHANGED <<contractAddress, tokenData, activeAddress, userBalance,
                   fetchError, isFetching, exploring>>
    /\ UNCHANGED <<ledgerVars, statsVars, shareIn, shareOut, formatVars, chartVars>>

NextExplorer ==
    \/ \E value \in Inputs : setContractAddress(value)
    \/ \E contractOk \in BOOLEAN, msg \in Messages : handleExplore(contractOk, msg)
    \/ \E meta \in Metas : exploreMetadataResolved(meta)
    \/ \E msg \in Messages : exploreMetadataRejected(msg)
    \/ \E balance \in Balances : exploreBalanceResolved(balance)
    \/ exploreBalanceRejected
    \/ \E p \in BOOLEAN : providerSet(p)
    \/ providerChange
    \/ \E w \in Wallets : \E obj \in {NoWallet, w} : walletChange(w, obj)
    \/ walletChange(NoWallet, NoWallet)

\* TokenExplorer as mounted, beside an idle Portfolio and no NetworkStats
InitExplorer ==
    /\ InitPortfolio
    /\ InitStatsIdle
    /\ InitExplorerCells
    /\ provider \in BOOLEAN
    /\ shareIn = <<0, 0>>
    /\ shareOut = <<>>
    /\ fmtIn = <<0, 0>>
    /\ fmtOut = <<>>
    /\ viewIn = <<>>
    /\ viewOut = <<>>

SpecExplorer == InitExplorer /\ [][NextExplorer]_vars

----------------------------------------------------------------------------
(* Properties of the holdings collection *)

AddTokenLabels ==
    {"addToken:ignored", "addToken:duplicate", "addToken:failed", "addToken:fetching"}

AddedLabels == {"added:noIdentity", "added:balance", "added:balanceFailed"}

CountAddress(ts, addr) == Cardinality({ k \in 1..Len(ts) : ts[k].address = addr })

C3_MetadataFailureAborts ==
    [][ /\ lastOp'[1] = "addToken:fetching" => tokens' = tokens
        /\ lastOp'[1] = "metadataRejected" =>
              \E i \in 1..Len(calls) :
                  /\ calls[i].pc = "metadata"
                  /\ calls' = RemoveAt(calls, i)
                  /\ tokens' = tokens
                  /\ ~HasAddress(tokens', calls[i].addr)
                  /\ error' # NoError
                  /\ \E k \in 1..Len(error') : error'[k] # ""
                  /\ loading' = FALSE ]_vars

\* the totalSupply fetch failed with an empty message while a holding is tracked
C3_Witness ==
    /\ lastOp = <<"metadataRejected", "totalSupply">>
    /\ error = <<"Failed to load token: ", "">>
    /\ Len(tokens) = 1

\* C4: when the metadata fetches succeed, an identity is present and balanceOf
\* fails, exactly one holding for the address is appended with balance 0 and
\* supplyShare 0, no error is reported and the earlier holdings are unchanged.
C4_BalanceFailureTolerated ==
    [][ lastOp'[1] = "added:balanceFailed" =>
          \E i \in 1..Len(calls) :
              /\ calls[i].pc = "balance"
              /\ calls[i].identity # NoWallet
              /\ calls' = RemoveAt(calls, i)
              /\ Len(tokens') = Len(tokens) + 1
              /\ SubSeq(tokens', 1, Len(tokens)) = tokens
              /\ CountAddress(tokens', calls[i].addr) = 1
              /\ LET h == tokens'[Len(tokens')] IN
                    /\ h.address = calls[i].addr
                    /\ h.name = calls[i].meta.name
                    /\ h.totalSupply = calls[i].meta.totalSupply
                    /\ h.balance = 0
                    /\ h.supplyShare = 0
              /\ error' = NoError ]_vars

\* a holding added with a failed balanceOf after a holding with a balance
C4_Witness ==
    /\ lastOp = <<"added:balanceFailed">>
    /\ Len(tokens) = 2
    /\ tokens[1].balance # 0
    /\ tokens[2].balance = 0
    /\ tokens[2].totalSupply # 0

C6_Original ==
    \A i \in 1..Len(tokens) :
        tokens[i].supplyShare >= 0 /\ tokens[i].supplyShare <= 10000

\* C7: with totalSupply 0 the share is 0; otherwise the share in hundredths of
\* a percent is the integer quotient of balance * 10000 by totalSupply, never
\* rounded up (balance 1, totalSupply 3 gives 3333).  Both computations agree.
C7_ShareIsTruncatedQuotient ==
    shareOut # <<>> =>
        \A k \in 1..Len(shareOut) :
            /\ shareIn[2] = 0 => shareOut[k] = 0
            /\ shareIn[2] > 0 =>
                  /\ shareOut[k] * shareIn[2] <= shareIn[1] * 10000
                  /\ shareIn[1] * 10000 < (shareOut[k] + 1) * shareIn[2]
            /\ shareIn = <<1, 3>> => shareOut[k] = 3333
            /\ shareIn = <<2, 3>> => shareOut[k] = 6666

\* one third, truncated
C7_Witness ==
    /\ shareIn = <<1, 3>>
    /\ shareOut = <<3333, 3333>>

\* C8: remove never reports an error; it deletes the entry with the address
\* when there is one and keeps all other entries and their order, and leaves
\* the collection unchanged when there is none.
C8_RemoveFrame ==
    [][ lastOp'[1] = "removeToken" =>
          LET address == lastOp'[2] IN
          /\ ~HasAddress(tokens, address) => tokens' = tokens
          /\ HasAddress(tokens, address) =>
                \E i \in 1..Len(tokens) :
                    /\ tokens[i].address = address
                    /\ tokens' = RemoveAt(tokens, i)
          /\ ~HasAddress(tokens', address)
          /\ UNCHANGED <<error, loading, calls, inputAddr>> ]_vars

\* the second of two holdings was removed and the first is still there
C8_Witness ==
    /\ lastOp[1] = "removeToken"
    /\ removed = lastOp[2]
    /\ Len(tokens) = 1
    /\ tokens[1].address # removed
    /\ error = NoError

\* C9: an address that was removed can be added again: the add is not
\* rejected by validation, and on success the appended entry consists of
\* exactly the values this call fetched.
C9_ReAddIsFresh ==
    [][ /\ (/\ lastOp'[1] \in AddTokenLabels
            /\ removed # <<>>
            /\ Trim(inputAddr) = removed
            /\ ~HasAddress(tokens, removed))
           => lastOp'[1] \in {"addToken:fetching", "addToken:failed"}
        /\ lastOp'[1] \in AddedLabels =>
              \E i \in 1..Len(calls) :
                  /\ calls' = RemoveAt(calls, i)
                  /\ calls[i].addr = removed =>
                        LET meta == IF lastOp'[1] = "added:noIdentity"
                                    THEN lastOp'[2] ELSE calls[i].meta
                            bal  == IF lastOp'[1] = "added:balance"
                                    THEN lastOp'[2] ELSE 0
                        IN tokens' = Append(tokens,
                               [address     |-> calls[i].addr,
                                name        |-> meta.name,
                                symbol      |-> meta.symbol,
                                decimals    |-> meta.decimals,
                                totalSupply |-> meta.totalSupply,
                                balance     |-> bal,
                                supplyShare |->
                                    IF meta.totalSupply = 0 THEN 0
                                    ELSE (bal * 10000) \div meta.totalSupply]) ]_vars

\* the address removed last is tracked again, with a fetched balance
C9_Witness ==
    /\ lastOp[1] = "added:balance"
    /\ removed # <<>>
    /\ tokens # <<>>
    /\ tokens[Len(tokens)].address = removed
    /\ tokens[Len(tokens)].balance = 5

----------------------------------------------------------------------------
(* Properties of the polling cycle *)

\* the step resolves the head fetch of a cycle that captured prev, with
\* height as the fetched head height: only then a cycle waiting for that
\* block appears
HeadResolvedStep(prev, height) ==
    CopiesIn(Cycle("block", prev, height), cycles')
        > CopiesIn(Cycle("block", prev, height), cycles)

\* the step sets the pulse and schedules its clearing
PulseRaised == pulseTimers' = pulseTimers + 1 /\ (mounted => pulseBlock')

\* the step leaves the pulse and the pending clearings alone
PulseUntouched == pulseTimers' = pulseTimers /\ pulseBlock' = pulseBlock

----------------------------------------------------------------------------
(* NetworkStats: the pulse, the snapshot and the timers *)

\* C11 as stated: a raised pulse stays true until its own 1000 ms have run
\* out and is false afterwards; since every pulse-clear fires 1000 ms after
\* its raise, the pulse of a mounted component is true exactly while a
\* pulse-clear is pending.
C11_Original ==
    mounted => (pulseBlock <=> pulseTimers > 0)

\* C12 as stated: when a fetch of a poll cycle fails, the cycle has published
\* nothing and raised no pulse: the head height is the one stored when the
\* cycle started, and the cycle is not one that raised the pulse.
C12_Original ==
    [][ \A c \in BagToSet(cycles) :
            cycleRejected(c) =>
                /\ blockHeight' = c.prev
                /\ ~(c.pc # "head" /\ heightChanged(c.prev, c.height)) ]_vars

\* C13 as stated: whenever latestBlock is present and recentBlocks is not
\* empty, the first recent block has the height of latestBlock.
C13_Original ==
    (latestBlock # <<>> /\ recentBlocks # <<>>) =>
        recentBlocks[1].height = latestBlock[1].height

\* C14: after any run of successful polls, recentBlocks holds at most 6
\* blocks, none of a negative height, and their heights are h, h - 1, ...
\* down to max(h - 5, 0) for the head height h they were asked for: strictly
\* descending, without duplicates, also when h < 5.
C14_RecentWindow ==
    recentBlocks # <<>> =>
        LET h   == recentBlocks[1].height
            low == IF h - 5 > 0 THEN h - 5 ELSE 0
        IN /\ Len(recentBlocks) <= 6
           /\ Len(recentBlocks) = h - low + 1
           /\ \A k \in 1..Len(recentBlocks) :
                 /\ recentBlocks[k].height = h - (k - 1)
                 /\ recentBlocks[k].height >= 0

\* a full window that no longer reaches down to height 0, after a short one
C14_Witness ==
    /\ Len(recentBlocks) = 6
    /\ recentBlocks[1].height > 5
    /\ latestBlock # <<>>
    /\ \E c \in BagToSet(cycles) : c.pc = "blocks" /\ c.height < 5

C16_OneInterval ==
    intervals <= 1

\* the effect has been run again (the head height it first saw was null) and
\* one interval is armed
C16_Witness ==
    /\ mounted
    /\ blockHeight # NoHeight
    /\ intervals = 1
    /\ ~isConnected

\* C17 as stated: after the unmount no timer of the component is pending,
\* neither the interval nor a pulse-clear timeout.
C17_Original ==
    ~mounted => (intervals = 0 /\ pulseTimers = 0)

\* C18 as stated: at most one poll cycle is in flight at any time.
C18_Original ==
    BagCardinality(cycles) <= 1

\* some fetch of some cycle fails in this step
FetchFails == \E c \in BagToSet(cycles) : cycleRejected(c)

\* a cycle completes in this step: its recent blocks, those of the head
\* height it fetched, are published
SnapshotPublished ==
    \E c \in BagToSet(cycles) :
        /\ blocksResolved(c)
        /\ recentBlocks'[1].height = c.height

\* C19: a failed fetch leaves the interval armed, and if from some point on
\* no fetch fails, then again and again a cycle runs to its end and
\* publishes the blocks of the head height it fetched.
C19_FailureKeepsSchedule ==
    /\ [][FetchFails => (intervals' = intervals /\ intervals' = 1)]_vars
    /\ (<>[][~FetchFails]_vars => []<><<SnapshotPublished>>_vars)

\* every cycle started so far has failed before its block was published, and
\* the interval is armed
C19_Witness ==
    /\ cycles = EmptyBag
    /\ blockHeight # NoHeight
    /\ latestBlock = <<>>
    /\ intervals = 1

----------------------------------------------------------------------------
(* Portfolio: an add becomes visible in one step *)

\* the entry t carries the four metadata values of one contract, a balance
\* the contract can report (or the default 0) and the share of exactly these
WholeEntry(t) ==
    /\ \E meta \in Metas :
          /\ t.name = meta.name
          /\ t.symbol = meta.symbol
          /\ t.decimals = meta.decimals
          /\ t.totalSupply = meta.totalSupply
    /\ t.balance \in Balances \cup {0}
    /\ t.supplyShare = IF t.totalSupply = 0 THEN 0
                       ELSE (t.balance * 10000) \div t.totalSupply

\* C20: every entry of the collection is whole, its six values coming from
\* the fetches of one add call, and while an add is suspended at a fetch the
\* collection holds no entry for the address it is adding.
C20_AddIsAtomic ==
    /\ \A k \in 1..Len(tokens) : WholeEntry(tokens[k])
    /\ \A i \in 1..Len(calls) : ~HasAddress(tokens, calls[i].addr)

\* an add awaits balanceOf, its metadata fetched, next to a whole entry of
\* an earlier add
C20_Witness ==
    /\ Len(tokens) = 1
    /\ tokens[1].balance > tokens[1].totalSupply
    /\ Len(calls) = 1
    /\ calls[1].pc = "balance"
    /\ calls[1].meta.name # tokens[1].name

----------------------------------------------------------------------------
(* Properties of the amount formatters *)

\* the value of the digit character ch
DigitValue(ch) == CHOOSE d \in 0..9 : DigitChar(d) = ch

RECURSIVE ValueOf(_)
\* the number a sequence of digit characters denotes (0 for none)
ValueOf(digits) ==
    IF digits = <<>> THEN 0
    ELSE ValueOf(SubSeq(digits, 1, Len(digits) - 1)) * 10
         + DigitValue(digits[Len(digits)])

\* the position of the decimal point in str, 0 when it has none
PointAt(str) ==
    IF \E k \in 1..Len(str) : str[k] = "."
    THEN CHOOSE k \in 1..Len(str) : str[k] = "."
    ELSE 0

IntegerPart(str) ==
    IF PointAt(str) = 0 THEN str ELSE SubSeq(str, 1, PointAt(str) - 1)

FractionPart(str) ==
    IF PointAt(str) = 0 THEN <<>> ELSE SubSeq(str, PointAt(str) + 1, Len(str))

IsComma(ch) == ch = ","

IsNoComma(ch) == ch # ","

\* str is the grouped form of the number whole: commas exactly before every
\* group of three digits, and the digits denote whole
GroupedFormOf(str, whole) ==
    /\ Len(str) > 0
    /\ \A k \in 1..Len(str) : IsComma(str[k]) <=> ((Len(str) - k + 1) % 4 = 0)
    /\ ValueOf(SelectSeq(str, IsNoComma)) = whole
    /\ (Len(str) > 1 => str[1] # "0")

\* the number of fraction digits a formatter keeps at most
KeptDigits(formatter, decimals) ==
    CASE formatter = "holdings" -> 4
      [] formatter = "explorer" -> 6
      [] OTHER -> decimals

----------------------------------------------------------------------------
(* Portfolio: order, derived views and identity *)

\* C22: the collection keeps insertion order: every step leaves it as it is,
\* puts one new entry after all entries present, or takes one entry out
\* while the others keep their order.
C22_InsertionOrder ==
    [][ \/ tokens' = tokens
        \/ /\ Len(tokens') = Len(tokens) + 1
           /\ SubSeq(tokens', 1, Len(tokens)) = tokens
        \/ \E i \in 1..Len(tokens) : tokens' = RemoveAt(tokens, i) ]_vars

\* a second holding was added, with its balance fetched, behind the first
C22_Witness ==
    /\ Len(tokens) = 2
    /\ lastOp[1] = "added:balance"
    /\ tokens[2].balance = lastOp[2]
    /\ tokens[1].balance # tokens[2].balance

\* C23: the chart segments are one per holding, in collection order, each of
\* weight 100/count whatever the balances, and there is none for an empty
\* collection.
C23_EqualSegments ==
    viewOut # <<>> =>
        LET segments == viewOut[1].segments IN
        /\ Len(segments) = Len(viewIn)
        /\ \A k \in 1..Len(segments) :
              /\ segments[k].label = viewIn[k].symbol
              /\ segments[k].percentage.den > 0
              /\ segments[k].percentage.num * Len(viewIn)
                     = 100 * segments[k].percentage.den
        /\ viewIn = <<>> => (segments = <<>> /\ ~viewOut[1].overview)

\* three holdings of different balances, a third of the chart each
C23_Witness ==
    /\ viewOut # <<>>
    /\ Len(viewIn) = 3
    /\ viewIn[1].balance # viewIn[2].balance
    /\ Len(viewOut[1].segments) = 3
    /\ viewOut[1].segments[2].percentage = [num |-> 100, den |-> 3]

\* C24: the holding at position i (counted from 0) has the colour of index
\* i mod 8 in the chart segment, the legend item and the card alike, so its
\* colour depends on its position only.
C24_ColourByPosition ==
    viewOut # <<>> =>
        \A k \in 1..Len(viewIn) :
            LET colour == CHART_COLORS[((k - 1) % 8) + 1] IN
            /\ viewOut[1].segments[k].color = colour
            /\ viewOut[1].legend[k].color = colour
            /\ viewOut[1].cards[k].badge = colour
            /\ viewOut[1].cards[k].gauge = colour

\* a ninth holding, which has the colour of the first again
C24_Witness ==
    /\ viewOut # <<>>
    /\ Len(viewIn) = 9
    /\ viewOut[1].segments[9].color = viewOut[1].segments[1].color
    /\ viewOut[1].cards[9].badge = "#f7931a"

----------------------------------------------------------------------------
(* NetworkStats: the timestamp and the restart of the schedule *)

\* C25 as stated: the timestamp changes only in the step that completes a
\* cycle, after its head, gas, block and recent-blocks fetches have all
\* succeeded, and it never decreases.
C25_Original ==
    [][ /\ lastUpdate' # lastUpdate => \E c \in BagToSet(cycles) : blocksResolved(c)
        /\ lastUpdate' >= lastUpdate ]_vars

\* C26: an add captures the identity the wallet reports when it is called.
\* Without one, its metadata step appends the holding with balance 0 and
\* share 0 and asks for no balance; with one, the step asks for the balance
\* of exactly that identity, once, and appends nothing yet.
C26_BalanceOnlyForIdentity ==
    [][ /\ lastOp'[1] = "addToken:fetching" =>
              calls'[Len(calls')].identity = walletAddressObj
        /\ lastOp'[1] = "added:noIdentity" =>
              /\ \A i \in 1..Len(calls) : calls[i].identity = NoWallet
              /\ \A i \in 1..Len(calls') : calls'[i].pc # "balance"
              /\ Len(tokens') = Len(tokens) + 1
              /\ tokens'[Len(tokens')].balance = 0
              /\ tokens'[Len(tokens')].supplyShare = 0
        /\ lastOp'[1] = "balanceOf" =>
              /\ tokens' = tokens
              /\ Cardinality({i \in 1..Len(calls') : calls'[i].pc = "balance"}) = 1
              /\ \A i \in 1..Len(calls') :
                    calls'[i].pc = "balance" =>
                        /\ calls[i].pc = "metadata"
                        /\ calls[i].identity # NoWallet
                        /\ calls'[i].identity = calls[i].identity ]_vars

\* a holding of a contract with a positive supply was added while the wallet
\* reported an address but no identity object
C26_Witness ==
    /\ lastOp[1] = "added:noIdentity"
    /\ walletAddress # NoWallet
    /\ Len(tokens) = 1
    /\ tokens[1].totalSupply > 0
    /\ tokens[1].balance = 0
    /\ calls = <<>>

\* C27: a step in which the identity changes (the wallet connects,
\* disconnects or reports another identity) leaves the collection as it is,
\* every stored balance and share included, and starts no fetch.
C27_IdentityChangeFrame ==
    [][ (walletAddress' # walletAddress \/ walletAddressObj' # walletAddressObj) =>
            /\ tokens' = tokens
            /\ calls' = calls
            /\ UNCHANGED <<loading, error, inputAddr>> ]_vars

\* the wallet has disconnected, and the holding still carries the balance
\* fetched for the identity it had
C27_Witness ==
    /\ walletAddress = NoWallet
    /\ walletAddressObj = NoWallet
    /\ Len(tokens) = 1
    /\ tokens[1].balance = 5
    /\ tokens[1].supplyShare > 0
    /\ calls = <<>>

\* C28: a remove of b while an add of a is suspended at a fetch takes b out
\* at once and leaves the add running; when the add completes, its entry is
\* put behind the collection as it is then, so b stays out and every other
\* entry stays in.
C28_RemoveDuringAdd ==
    [][ /\ (lastOp'[1] = "removeToken" /\ calls # <<>>) =>
              /\ ~HasAddress(tokens', lastOp'[2])
              /\ \A k \in 1..Len(tokens) :
                    tokens[k].address # lastOp'[2] =>
                        HasAddress(tokens', tokens[k].address)
              /\ calls' = calls
              /\ loading' = loading
        /\ lastOp'[1] \in AddedLabels =>
              \E i \in 1..Len(calls) :
                  /\ calls' = RemoveAt(calls, i)
                  /\ Len(tokens') = Len(tokens) + 1
                  /\ SubSeq(tokens', 1, Len(tokens)) = tokens
                  /\ tokens'[Len(tokens')].address = calls[i].addr
                  /\ (removed # calls[i].addr /\ ~HasAddress(tokens, removed)) =>
                         ~HasAddress(tokens', removed) ]_vars

\* the holding b was removed while the add of a awaits the balance
C28_Witness ==
    /\ lastOp[1] = "removeToken"
    /\ removed = lastOp[2]
    /\ tokens = <<>>
    /\ Len(calls) = 1
    /\ calls[1].pc = "balance"
    /\ calls[1].addr # removed
    /\ loading

\* the cycle that stored the new head height is still fetching its block
ObserverStillFetching ==
    \E c \in BagToSet(cycles') : c.pc = "block" /\ c.height = blockHeight'

\* one more fetchData call is suspended at its first await, and its callback
\* captured the new head height
NewCycleStarted ==
    /\ BagCardinality(cycles') = BagCardinality(cycles) + 1
    /\ BagIn(Cycle("head", blockHeight', NoHeight), cycles')

\* C29 as stated: every change of the stored head height leaves exactly one
\* interval armed and starts a new poll cycle at once, while the cycle that
\* observed the change is still fetching its block data.
C29_Original ==
    [][ blockHeight' # blockHeight =>
            /\ intervals' = 1
            /\ NewCycleStarted
            /\ ObserverStillFetching ]_vars

\* C29: every change of the stored head height re-runs the effect while the
\* observing cycle is still fetching its block data: exactly one interval is
\* armed afterwards, and the immediate fetchData call starts a new poll cycle
\* if the provider is connected and returns at its guard, starting none, if
\* it is not.
C29_RestartOnHeightChange ==
    [][ blockHeight' # blockHeight =>
            /\ intervals' = 1
            /\ ObserverStillFetching
            /\ isConnected => NewCycleStarted
            /\ ~isConnected => BagCardinality(cycles') = BagCardinality(cycles) ]_vars

\* the new head height is stored, its cycle awaits the block, and the cycle
\* started by the re-run effect awaits the next head
C29_Witness ==
    /\ mounted /\ isConnected
    /\ blockHeight # NoHeight
    /\ intervals = 1
    /\ BagCardinality(cycles) = 2
    /\ BagIn(Cycle("block", NoHeight, blockHeight), cycles)
    /\ BagIn(Cycle("head", blockHeight, NoHeight), cycles)

----------------------------------------------------------------------------
(* TokenExplorer: token data and fetch error *)

\* C30 as stated: in every state reached by explore requests, token data and
\* a fetch error are not both present.
C30_Original == ~(tokenData # <<>> /\ fetchError # NoError)

\* token data from an earlier request is shown together with the error of a
\* request rejected as not connected
C30_BothPresent ==
    /\ tokenData # <<>>
    /\ fetchError = errNotConnected
    /\ ~isFetching

====
